---- MODULE Spec2Model ----
(***************************************************************************)
(* Model of the conversation crate (src/conversation/src/lib.rs) and of    *)
(* the consumer binary (src/consumer/src/main.rs): MessageSender::rewind   *)
(* walks the backward-linked PayloadSent events of one conversation,       *)
(* MessageSender::follow_messages delivers the subscribed events to a      *)
(* callback.  The ledger (contract + node) is the environment.             *)
(***************************************************************************)
EXTENDS Integers, Sequences, FiniteSets, TLC

\* ---------------------------------------------------------------- bounds
MaxBlock   == 2      \* highest block height of the ledger
MaxEvents  == 3      \* events appended to the conversation
MaxN       == 3      \* largest n passed to rewind
MaxQueries == 3      \* get_logs calls of one rewind that are explored
MaxCount   == 4      \* largest MESSAGE_COUNT of the producer
MaxStrBytes == 12    \* longest value handed to scram, in bytes

\* The budget n is a u32 (line 113), kept as two 16-bit limbs: 2^32 - 1 is
\* the value a wrapping n -= 1 leaves behind on n = 0.
Limb == 65536
ToU32(v) == [hi |-> v \div Limb, lo |-> v % Limb]
U32Zero == [hi |-> 0, lo |-> 0]
WrappingDec(x) ==
    IF x.lo > 0 THEN [x EXCEPT !.lo = x.lo - 1]
    ELSE [hi |-> (x.hi - 1) % Limb, lo |-> Limb - 1]

\* message texts, as sequences of character codes
Messages == { <<1>>, <<2, 1>> }

\* ------------------------------------------------------------- EventCodec
\* ABI encoding of (string message, uint256 prevPointer), word by word:
\* word 1 = offset of the string tail (in words), word 2 = the uint256,
\* at the offset the length word and then the characters.
Encode(message, prev) == <<2, prev, Len(message)>> \o message

\* a payload that is not an encoding of (string, uint256): the length word of
\* the string announces more characters than the data holds
MalformedPayloads == { <<2, 0, 2, 1>> }

\* abi_decode_payload_sent: Ok(<<string, uint>>) or Err
abi_decode_payload_sent(data) ==
    IF Len(data) < 2 THEN [ok |-> FALSE]
    ELSE LET off == data[1] IN
         IF off < 2 \/ off + 1 > Len(data) THEN [ok |-> FALSE]
         ELSE LET len == data[off + 1] IN
              IF off + 1 + len > Len(data) THEN [ok |-> FALSE]
              ELSE [ok |-> TRUE,
                    param |-> << SubSeq(data, off + 2, off + 1 + len), data[2] >>]

\* ------------------------------------------------------------------ state
VARIABLES
    ledger,       \* PayloadSent events of the conversation, in append order
    head,         \* the contract's lastMessage[conversation]
    pc,           \* position of the caller
    lookup,       \* rewind: outcome of the last_message call
    arg_n,        \* the n rewind was called with
    n,            \* rewind: remaining budget (mut n)
    last_change,  \* rewind: working pointer (mut last_change)
    rewind,       \* rewind: the MessageRewind being built
    result,       \* what rewind returned
    queried,      \* positions rewind passed to get_logs, in call order
    lastResp,     \* outcome of the latest get_logs call
    decoded,      \* payloads rewind handed to abi_decode_payload_sent
    snapshot,     \* number of events on the ledger when rewind was called
    mutated,      \* an event was appended between rewind's call and subscribe
    subResp,      \* follow_messages: outcome of subscribe_logs
    start_hi,     \* follow_messages: start_block, the bits above the low 64
    start_block,  \* follow_messages: start_block, the low 64 bits
    delivered,    \* follow_messages: payloads stream.next() yielded
    sink,         \* follow_messages: arguments of the callback invocations
    stream,       \* follow_messages: the subscription, open or ended
    p_pc,         \* producer main: position
    p_left,       \* producer main: iterations of the send loop still to run
    p_msg,        \* producer main: the message it sends
    lastTx,       \* send_message: what became of the latest transaction
    sendRet,      \* send_message: what the latest call returned
    environ,      \* appenv: the process environment (std::env)
    env_ret,      \* appenv: outcome of environment()
    scram_arg,    \* appenv: the value handed to scram
    scram_ret     \* appenv: what scram returned

producerVars == << p_pc, p_left, p_msg, lastTx, sendRet >>
envVars == << environ, env_ret >>
scramVars == << scram_arg, scram_ret >>

\* the state of the programs other than the consumer
otherPrograms == << producerVars, envVars, scramVars >>

vars == << ledger, head, pc, lookup, arg_n, n, last_change, rewind, result,
           queried, lastResp, decoded, snapshot, mutated, subResp, start_hi,
           start_block, delivered, sink, stream, otherPrograms >>

rewindVars == << lookup, arg_n, n, last_change, rewind, result, queried, lastResp,
                 decoded, snapshot >>
followVars == << subResp, start_hi, start_block, delivered, sink, stream >>

\* ----------------------------------------------------------------- helpers
\* U256::as_u64 on a value given as (bits above the low 64, low 64 bits):
\* the low word when the value fits one, a panic otherwise
as_u64(hi, lo) == IF hi = 0 THEN [ok |-> TRUE, v |-> lo] ELSE [ok |-> FALSE]

Reverse(s) == [i \in 1..Len(s) |-> s[Len(s) + 1 - i]]

\* the events a get_logs filter with from_block = to_block = b matches
LogsAt(b) == SelectSeq(ledger, LAMBDA e : e.block = b)

\* the events a subscription with from_block = b delivers, in order
LogsFrom(b) == SelectSeq(ledger, LAMBDA e : e.block >= b)

LastBlock == IF ledger = <<>> THEN 0 ELSE ledger[Len(ledger)].block

\* the producer before its main runs
ProducerInit ==
    /\ p_pc = "idle"
    /\ p_left = 0
    /\ p_msg = <<>>
    /\ lastTx = "none"
    /\ sendRet = "none"

\* the variables environment() reads, in the order it reads them
EnvNames == << "RPC_URL", "PUBLIC_KEY", "PRIVATE_KEY", "CONVERSATION_ID",
               "MESSAGE_COUNT", "MESSAGE_SIZE" >>
\* a variable is unset, set to a text, or set to bytes that are not Unicode
Unset == [state |-> "unset"]
SetTo(text) == [state |-> "unicode", v |-> text]
NotUnicode == [state |-> "not_unicode"]

\* nothing is set and environment() was not called
EnvInit ==
    /\ environ = [name \in {EnvNames[i] : i \in 1..Len(EnvNames)} |-> Unset]
    /\ env_ret = [tag |-> "None"]

\* scram was not called
ScramInit ==
    /\ scram_arg = <<>>
    /\ scram_ret = [tag |-> "None"]

Init ==
    /\ ProducerInit
    /\ EnvInit
    /\ ScramInit
    /\ ledger = <<>>
    /\ head = 0
    /\ pc = "start"
    /\ lookup = "none"
    /\ arg_n = 0
    /\ n = U32Zero
    /\ last_change = 0
    /\ rewind = [message |-> <<>>, last_change |-> 0]
    /\ result = [tag |-> "None"]
    /\ queried = <<>>
    /\ lastResp = "none"
    /\ decoded = <<>>
    /\ snapshot = 0
    /\ mutated = FALSE
    /\ subResp = "none"
    /\ start_hi = 0
    /\ start_block = 0
    /\ delivered = <<>>
    /\ sink = <<>>
    /\ stream = [ended |-> FALSE]

\* ----------------------------------------------------------------- ledger
\* The contract's sendMessage: emits PayloadSent(id, message, lastMessage[id])
\* in the current block and stores the block number as lastMessage[id].
\* Events are followed for as long as the caller is running.
Emit(blk, data) ==
    /\ pc \in {"start", "rw_loop", "rw_ok", "fl_loop"}
    /\ Len(ledger) < MaxEvents
    /\ blk >= LastBlock
    /\ ledger' = Append(ledger, [block |-> blk, data |-> data])
    /\ head' = blk
    /\ mutated' = (mutated \/ pc \in {"rw_loop", "rw_ok"})
    /\ UNCHANGED << pc, rewindVars, followVars, otherPrograms >>

SendMessage ==
    \E blk \in 1..MaxBlock, m \in Messages : Emit(blk, Encode(m, head))

\* an event of the conversation whose data is not (string, uint256)
SendMalformed ==
    \E blk \in 1..MaxBlock, d \in MalformedPayloads : Emit(blk, d)

\* ----------------------------------------------------------------- rewind
\* The for loop over the logs of one get_logs answer (lines 141-165), from
\* log i on.  st holds the loop's variables; wraps tells whether n -= 1 on
\* n = 0 wraps around (release build) or panics (overflow checks on).
RECURSIVE ForLogs(_, _, _, _)
RECURSIVE ForLogsSkips(_, _, _, _)
RECURSIVE ForLogsNoBreak(_, _, _, _)
RECURSIVE ForLogsKeepsPointer(_, _, _, _)

\* ForLogs without the break: the batch is always walked to its end
ForLogsNoBreak(logs, i, st, wraps) ==
    IF i > Len(logs) THEN st
    ELSE LET param_result == abi_decode_payload_sent(logs[i].data)
             dec == Append(st.decoded, logs[i].data)
         IN  IF ~param_result.ok
             THEN [st EXCEPT !.status = "err", !.decoded = dec]
             ELSE LET msgs == Append(st.message, param_result.param[1])
                      prev == param_result.param[2]
                  IN  IF st.n = U32Zero /\ ~wraps
                      THEN [n |-> st.n, last_change |-> prev, message |-> msgs,
                            decoded |-> dec, status |-> "panic"]
                      ELSE LET n1 == WrappingDec(st.n)
                           IN  ForLogsNoBreak(logs, i + 1,
                                   [n |-> n1,
                                    last_change |-> IF n1 = U32Zero THEN 0 ELSE prev,
                                    message |-> msgs, decoded |-> dec,
                                    status |-> "run"], wraps)

\* ForLogs that never moves the working pointer to the decoded prevPointer
ForLogsKeepsPointer(logs, i, st, wraps) ==
    IF i > Len(logs) THEN st
    ELSE LET param_result == abi_decode_payload_sent(logs[i].data)
             dec == Append(st.decoded, logs[i].data)
         IN  IF ~param_result.ok
             THEN [st EXCEPT !.status = "err", !.decoded = dec]
             ELSE LET msgs == Append(st.message, param_result.param[1])
                  IN  IF st.n = U32Zero /\ ~wraps
                      THEN [n |-> st.n, last_change |-> st.last_change,
                            message |-> msgs, decoded |-> dec, status |-> "panic"]
                      ELSE LET n1 == WrappingDec(st.n)
                           IN  IF n1 = U32Zero
                               THEN [n |-> n1, last_change |-> 0, message |-> msgs,
                                     decoded |-> dec, status |-> "break"]
                               ELSE ForLogsKeepsPointer(logs, i + 1,
                                        [n |-> n1, last_change |-> st.last_change,
                                         message |-> msgs, decoded |-> dec,
                                         status |-> "run"], wraps)

\* ForLogs with a decode failure logged and skipped instead of returned
ForLogsSkips(logs, i, st, wraps) ==
    IF i > Len(logs) THEN st
    ELSE LET param_result == abi_decode_payload_sent(logs[i].data)
             dec == Append(st.decoded, logs[i].data)
         IN  IF ~param_result.ok
             THEN ForLogsSkips(logs, i + 1, [st EXCEPT !.decoded = dec], wraps)
             ELSE LET msgs == Append(st.message, param_result.param[1])
                      prev == param_result.param[2]
                  IN  IF st.n = U32Zero /\ ~wraps
                      THEN [n |-> st.n, last_change |-> prev, message |-> msgs,
                            decoded |-> dec, status |-> "panic"]
                      ELSE LET n1 == WrappingDec(st.n)
                           IN  IF n1 = U32Zero
                               THEN [n |-> n1, last_change |-> 0, message |-> msgs,
                                     decoded |-> dec, status |-> "break"]
                               ELSE ForLogsSkips(logs, i + 1,
                                                 [n |-> n1, last_change |-> prev,
                                                  message |-> msgs, decoded |-> dec,
                                                  status |-> "run"], wraps)

ForLogs(logs, i, st, wraps) ==
    IF i > Len(logs) THEN st
    ELSE LET param_result == abi_decode_payload_sent(logs[i].data)
             dec == Append(st.decoded, logs[i].data)
         IN  IF ~param_result.ok
             THEN [st EXCEPT !.status = "err", !.decoded = dec]
             ELSE LET msgs == Append(st.message, param_result.param[1])
                      prev == param_result.param[2]
                  IN  IF st.n = U32Zero /\ ~wraps
                      THEN [n |-> st.n, last_change |-> prev, message |-> msgs,
                            decoded |-> dec, status |-> "panic"]
                      ELSE LET n1 == WrappingDec(st.n)
                           IN  IF n1 = U32Zero
                               THEN [n |-> n1, last_change |-> 0, message |-> msgs,
                                     decoded |-> dec, status |-> "break"]
                               ELSE ForLogs(logs, i + 1,
                                            [n |-> n1, last_change |-> prev,
                                             message |-> msgs, decoded |-> dec,
                                             status |-> "run"], wraps)

\* RewindOk returning the working pointer the loop ended with
RewindOkWorkingPointer(rw) ==
    [tag |-> "Ok",
     value |-> [message |-> Reverse(rw.message), last_change |-> 0]]

\* lines 169-171: reverse the accumulator and return the struct
RewindOk(rw) == [tag |-> "Ok",
                 value |-> [message |-> Reverse(rw.message),
                            last_change |-> rw.last_change]]

\* RewindCall with the loop condition tested after the body (do-while)
RewindCallAlwaysLoops ==
    \E nn \in 0..MaxN :
        /\ pc = "start"
        /\ lookup' = "ok"
        /\ arg_n' = nn
        /\ n' = ToU32(nn)
        /\ snapshot' = Len(ledger)
        /\ last_change' = head
        /\ rewind' = [message |-> <<>>, last_change |-> head]
        /\ pc' = "rw_loop"
        /\ UNCHANGED << otherPrograms, result, ledger, head, queried, lastResp, decoded, mutated,
                        followVars >>

\* rewind is called; the last_message lookup answers (lines 113-129)
RewindCall ==
    \E nn \in 0..MaxN :
        /\ pc = "start"
        /\ lookup' = "ok"
        /\ arg_n' = nn
        /\ n' = ToU32(nn)
        /\ snapshot' = Len(ledger)
        /\ last_change' = head
        /\ rewind' = [message |-> <<>>, last_change |-> head]
        /\ IF head = 0
           THEN /\ pc' = "rw_ok"
                /\ result' = RewindOk([message |-> <<>>, last_change |-> head])
           ELSE /\ pc' = "rw_loop"
                /\ UNCHANGED result
        /\ UNCHANGED << otherPrograms, ledger, head, queried, lastResp, decoded, mutated, followVars >>

\* RewindCallFails with the failed lookup read as "no message yet"
RewindCallFailsDefaults ==
    \E nn \in 0..MaxN :
        /\ pc = "start"
        /\ lookup' = "fail"
        /\ arg_n' = nn
        /\ n' = ToU32(nn)
        /\ snapshot' = Len(ledger)
        /\ result' = RewindOk([message |-> <<>>, last_change |-> 0])
        /\ pc' = "rw_ok"
        /\ UNCHANGED << otherPrograms, ledger, head, last_change, rewind, queried, lastResp,
                        decoded, mutated, followVars >>

\* rewind is called; the last_message lookup fails (lines 119-122)
RewindCallFails ==
    \E nn \in 0..MaxN :
        /\ pc = "start"
        /\ lookup' = "fail"
        /\ arg_n' = nn
        /\ n' = ToU32(nn)
        /\ snapshot' = Len(ledger)
        /\ result' = [tag |-> "Err"]
        /\ pc' = "rw_err"
        /\ UNCHANGED << otherPrograms, ledger, head, last_change, rewind, queried, lastResp,
                        decoded, mutated, followVars >>

\* one iteration of the while loop whose get_logs answers Err (lines 129-140,
\* 166-167): the if-let has no else branch, the loop condition is tested again
RewindQueryFails ==
    /\ pc = "rw_loop"
    /\ last_change # 0
    /\ Len(queried) < MaxQueries
    /\ queried' = Append(queried, last_change)
    /\ lastResp' = "fail"
    /\ UNCHANGED << otherPrograms, ledger, head, pc, lookup, arg_n, n, last_change, rewind,
                    result, decoded, snapshot, mutated, followVars >>

\* one iteration of the while loop whose get_logs answers Ok(logs) (lines
\* 129-167) and, when the loop condition then fails, the return (169-171).
\* The node answers with the block's matching logs, or with none (a node that
\* does not hold the block's logs).
RewindQuery ==
    \E holds \in BOOLEAN, wraps \in BOOLEAN :
        LET logs == IF holds THEN LogsAt(last_change) ELSE <<>>
            st == ForLogs(logs, 1,
                          [n |-> n, last_change |-> last_change,
                           message |-> rewind.message, decoded |-> decoded,
                           status |-> "run"], wraps)
        IN  /\ pc = "rw_loop"
            /\ last_change # 0
            /\ Len(queried) < MaxQueries
            /\ queried' = Append(queried, last_change)
            /\ lastResp' = IF logs = <<>> THEN "empty" ELSE "logs"
            /\ decoded' = st.decoded
            /\ n' = st.n
            /\ last_change' = st.last_change
            /\ CASE st.status = "err" ->
                      /\ pc' = "rw_err"
                      /\ result' = [tag |-> "Err"]
                      /\ rewind' = [rewind EXCEPT !.message = st.message]
                 [] st.status = "panic" ->
                      /\ pc' = "rw_panic"
                      /\ rewind' = [rewind EXCEPT !.message = st.message]
                      /\ UNCHANGED result
                 [] OTHER ->
                      IF st.last_change = 0
                      THEN /\ pc' = "rw_ok"
                           /\ rewind' = [rewind EXCEPT !.message = Reverse(st.message)]
                           /\ result' = RewindOk([rewind EXCEPT !.message = st.message])
                      ELSE /\ pc' = "rw_loop"
                           /\ rewind' = [rewind EXCEPT !.message = st.message]
                           /\ UNCHANGED result
            /\ UNCHANGED << otherPrograms, ledger, head, lookup, arg_n, snapshot, mutated,
                            followVars >>

\* --------------------------------------------------------- follow_messages
\* the subscription is established (lines 181-197)
Subscribe(sb) ==
    /\ subResp' = "ok"
    /\ start_hi' = 0
    /\ start_block' = sb
    /\ delivered' = <<>>
    /\ sink' = <<>>
    /\ stream' = [ended |-> FALSE]
    /\ pc' = "fl_loop"
    /\ UNCHANGED << otherPrograms, ledger, head, rewindVars, mutated >>

\* consumer main, lines 24-27: follow from the cursor rewind returned
ConsumerFollow ==
    /\ pc = "rw_ok"
    /\ Subscribe(result.value.last_change)

\* follow_messages called on its own with any start_block: &U256.  Line 192
\* converts it with U256::as_u64, which panics ("Integer overflow when
\* casting to u64") unless the bits above the low 64 are all zero.
FollowCall ==
    \E sb \in 0..MaxBlock, hi \in 0..1 :
        /\ pc = "start"
        /\ IF as_u64(hi, sb).ok
           THEN Subscribe(as_u64(hi, sb).v)
           ELSE /\ pc' = "fl_panic"
                /\ start_hi' = hi
                /\ start_block' = sb
                /\ UNCHANGED << otherPrograms, ledger, head, rewindVars, mutated, subResp,
                                delivered, sink, stream >>

\* subscribe_logs answers Err: the unwrap of line 197 panics
SubscribeFails ==
    /\ pc \in {"start", "rw_ok"}
    /\ pc' = "fl_panic"
    /\ subResp' = "fail"
    /\ UNCHANGED << otherPrograms, ledger, head, rewindVars, mutated, start_hi, start_block,
                    delivered, sink, stream >>

\* The events the subscription carries: those of the filter (lines 191-195),
\* up to the moment the subscription ended.
Pending ==
    IF stream.ended THEN SubSeq(LogsFrom(start_block), 1, stream.at)
    ELSE LogsFrom(start_block)

\* the node or the transport ends the subscription; events it carried so far
\* stay in the stream
StreamClose ==
    /\ pc = "fl_loop"
    /\ ~stream.ended
    /\ stream' = [ended |-> TRUE, at |-> Len(LogsFrom(start_block))]
    /\ UNCHANGED << otherPrograms, ledger, head, pc, rewindVars, mutated, subResp,
                    start_hi, start_block, delivered, sink >>

\* FollowNext with a decode failure logged and the loop continued
FollowNextSkips ==
    /\ pc = "fl_loop"
    /\ Len(delivered) < Len(Pending)
    /\ LET log == Pending[Len(delivered) + 1]
           param_result == abi_decode_payload_sent(log.data)
       IN  /\ delivered' = Append(delivered, log.data)
           /\ pc' = "fl_loop"
           /\ IF param_result.ok
              THEN sink' = Append(sink, param_result.param[1])
              ELSE UNCHANGED sink
    /\ UNCHANGED << otherPrograms, ledger, head, rewindVars, mutated, subResp, start_hi,
                    start_block, stream >>

\* FollowNext handing the newest message to the callback ahead of the others
FollowNextReorders ==
    /\ pc = "fl_loop"
    /\ Len(delivered) < Len(Pending)
    /\ LET log == Pending[Len(delivered) + 1]
           param_result == abi_decode_payload_sent(log.data)
       IN  /\ delivered' = Append(delivered, log.data)
           /\ IF param_result.ok
              THEN /\ sink' = << param_result.param[1] >> \o sink
                   /\ pc' = "fl_loop"
              ELSE /\ pc' = "fl_err"
                   /\ UNCHANGED sink
    /\ UNCHANGED << otherPrograms, ledger, head, rewindVars, mutated, subResp, start_hi,
                    start_block, stream >>

\* stream.next() yields Some(log): one iteration of lines 198-213
FollowNext ==
    /\ pc = "fl_loop"
    /\ Len(delivered) < Len(Pending)
    /\ LET log == Pending[Len(delivered) + 1]
           param_result == abi_decode_payload_sent(log.data)
       IN  /\ delivered' = Append(delivered, log.data)
           /\ IF param_result.ok
              THEN /\ sink' = Append(sink, param_result.param[1])
                   /\ pc' = "fl_loop"
              ELSE /\ pc' = "fl_err"
                   /\ UNCHANGED sink
    /\ UNCHANGED << otherPrograms, ledger, head, rewindVars, mutated, subResp, start_hi,
                    start_block, stream >>

\* StreamEnd returning as soon as no event is waiting
StreamEndWhenIdle ==
    /\ pc = "fl_loop"
    /\ Len(delivered) = Len(Pending)
    /\ pc' = "fl_ok"
    /\ UNCHANGED << otherPrograms, ledger, head, rewindVars, mutated, followVars >>

\* stream.next() yields None, after the subscription ended and everything it
\* carried was yielded (lines 198, 214)
StreamEnd ==
    /\ pc = "fl_loop"
    /\ stream.ended
    /\ Len(delivered) = Len(Pending)
    /\ pc' = "fl_ok"
    /\ UNCHANGED << otherPrograms, ledger, head, rewindVars, mutated, followVars >>

Next ==
    \/ SendMessage
    \/ SendMalformed
    \/ RewindCall
    \/ RewindCallFails
    \/ RewindQueryFails
    \/ RewindQuery
    \/ ConsumerFollow
    \/ FollowCall
    \/ SubscribeFails
    \/ FollowNext
    \/ StreamClose
    \/ StreamEnd

Spec == Init /\ [][Next]_vars
\* ---------------------------------------------------------------- producer
\* What MessageSender::send_message (lines 85-107) does with the outcome of
\* its transaction: send() failing is unwrapped on line 98 (panic); the
\* confirmations future answers Err when the provider fails, Ok(Some(receipt))
\* when the transaction is mined and confirmed, and Ok(None) when it was
\* dropped from the pool; only Err is turned into an error (lines 101-104).
send_message(outcome) ==
    CASE outcome = "submit_err" -> "panic"
      [] outcome = "conf_err"   -> "Err"
      [] outcome = "confirmed"  -> "Ok"
      [] outcome = "dropped"    -> "Ok"

TxOutcomes == {"submit_err", "conf_err", "confirmed", "dropped"}

consumerVars == << pc, rewindVars, followVars, mutated >>

\* producer main, lines 27-31: the message and the number of sends
ProducerStart ==
    \E count \in 0..MaxCount, m \in Messages :
        /\ p_pc = "idle"
        /\ p_left' = count
        /\ p_msg' = m
        /\ p_pc' = IF count = 0 THEN "done" ELSE "sending"
        /\ UNCHANGED << ledger, head, lastTx, sendRet, consumerVars, envVars,
                        scramVars >>

\* producer main, lines 31-38: one send_message(...).await? of the loop; a
\* confirmed transaction is the contract emitting PayloadSent in its block
ProducerSend ==
    \E outcome \in TxOutcomes, blk \in 1..MaxBlock :
        LET ret == send_message(outcome) IN
        /\ p_pc = "sending"
        /\ lastTx' = outcome
        /\ sendRet' = ret
        /\ IF outcome = "confirmed"
           THEN /\ Len(ledger) < MaxEvents
                /\ blk >= LastBlock
                /\ ledger' = Append(ledger, [block |-> blk, data |-> Encode(p_msg, head)])
                /\ head' = blk
           ELSE /\ blk = 1
                /\ UNCHANGED << ledger, head >>
        /\ p_left' = IF ret = "Ok" THEN p_left - 1 ELSE p_left
        /\ p_pc' = CASE ret = "panic" -> "panic"
                     [] ret = "Err" -> "err"
                     [] OTHER -> IF p_left = 1 THEN "done" ELSE "sending"
        /\ UNCHANGED << p_msg, consumerVars, envVars, scramVars >>

NextProducer == ProducerStart \/ ProducerSend

SpecProducer == Init /\ [][NextProducer]_vars

\* ------------------------------------------------------------------ appenv
\* Texts are sequences of characters.  The values the string variables and
\* the two numeric variables are set to:
TextValues == { <<>>, <<"k">> }
NumberTexts == { <<"1", "0", "1">>, <<"+", "5">>,
                 <<"4", "2", "9", "4", "9", "6", "7", "2", "9", "5">>,
                 <<"4", "2", "9", "4", "9", "6", "7", "2", "9", "6">>,
                 <<>>, <<"1", "x">>, <<"-", "1">> }
ValuesOf(name) ==
    {NotUnicode} \cup
    { SetTo(text) : text \in IF name \in {"MESSAGE_COUNT", "MESSAGE_SIZE"}
                             THEN NumberTexts ELSE TextValues }

\* std::env::var: Err when the variable is unset or its value is not Unicode
env_var(e, name) ==
    IF e[name].state = "unicode" THEN [ok |-> TRUE, v |-> e[name].v]
    ELSE [ok |-> FALSE]

Digits == {"0", "1", "2", "3", "4", "5", "6", "7", "8", "9"}
DigitValue(c) ==
    CASE c = "0" -> 0 [] c = "1" -> 1 [] c = "2" -> 2 [] c = "3" -> 3
      [] c = "4" -> 4 [] c = "5" -> 5 [] c = "6" -> 6 [] c = "7" -> 7
      [] c = "8" -> 8 [] c = "9" -> 9

\* the digit loop of str::parse::<u32>: acc = acc * 10 + digit, both checked
RECURSIVE ParseDigits(_, _, _)
ParseDigits(text, i, acc) ==
    IF i > Len(text) THEN [ok |-> TRUE, v |-> acc]
    ELSE IF text[i] \notin Digits THEN [ok |-> FALSE]
    ELSE LET lo10 == acc.lo * 10 + DigitValue(text[i])
             hi10 == acc.hi * 10 + lo10 \div Limb
         IN  IF hi10 >= Limb THEN [ok |-> FALSE]
             ELSE ParseDigits(text, i + 1, [hi |-> hi10, lo |-> lo10 % Limb])

\* str::parse::<u32> (lines 24, 28): an optional '+', then one digit or more
parse_u32(text) ==
    LET digits == IF Len(text) >= 1 /\ text[1] = "+" THEN Tail(text) ELSE text
    IN  IF digits = <<>> THEN [ok |-> FALSE]
        ELSE ParseDigits(digits, 1, U32Zero)

Panic(msg) == [tag |-> "Panic", msg |-> msg]

\* environment with a MESSAGE_SIZE that does not parse read as zero
environmentDefaults(e) ==
    IF ~env_var(e, "RPC_URL").ok THEN Panic("RPC_URL must be set")
    ELSE IF ~env_var(e, "PUBLIC_KEY").ok THEN Panic("PUBLIC_KEY must be set")
    ELSE IF ~env_var(e, "PRIVATE_KEY").ok THEN Panic("PRIVATE_KEY must be set")
    ELSE IF ~env_var(e, "CONVERSATION_ID").ok THEN Panic("CONVERSATION_ID must be set")
    ELSE IF ~env_var(e, "MESSAGE_COUNT").ok THEN Panic("MESSAGE_COUNT must be set")
    ELSE IF ~parse_u32(env_var(e, "MESSAGE_COUNT").v).ok
         THEN Panic("MESSAGE_COUNT must be a number")
    ELSE IF ~env_var(e, "MESSAGE_SIZE").ok THEN Panic("MESSAGE_SIZE must be set")
    ELSE [tag |-> "Ok",
          value |-> [rpc_url |-> env_var(e, "RPC_URL").v,
                     public_key |-> env_var(e, "PUBLIC_KEY").v,
                     private_key |-> env_var(e, "PRIVATE_KEY").v,
                     conversation_id |-> env_var(e, "CONVERSATION_ID").v,
                     message_count |-> parse_u32(env_var(e, "MESSAGE_COUNT").v).v,
                     message_size |-> IF parse_u32(env_var(e, "MESSAGE_SIZE").v).ok
                                      THEN parse_u32(env_var(e, "MESSAGE_SIZE").v).v
                                      ELSE U32Zero]]

\* environment() (lines 16-31): the fields are evaluated in order, the first
\* expect that fails panics with its message
environment(e) ==
    IF ~env_var(e, "RPC_URL").ok THEN Panic("RPC_URL must be set")
    ELSE IF ~env_var(e, "PUBLIC_KEY").ok THEN Panic("PUBLIC_KEY must be set")
    ELSE IF ~env_var(e, "PRIVATE_KEY").ok THEN Panic("PRIVATE_KEY must be set")
    ELSE IF ~env_var(e, "CONVERSATION_ID").ok THEN Panic("CONVERSATION_ID must be set")
    ELSE IF ~env_var(e, "MESSAGE_COUNT").ok THEN Panic("MESSAGE_COUNT must be set")
    ELSE IF ~parse_u32(env_var(e, "MESSAGE_COUNT").v).ok
         THEN Panic("MESSAGE_COUNT must be a number")
    ELSE IF ~env_var(e, "MESSAGE_SIZE").ok THEN Panic("MESSAGE_SIZE must be set")
    ELSE IF ~parse_u32(env_var(e, "MESSAGE_SIZE").v).ok
         THEN Panic("MESSAGE_SIZE must be a number")
    ELSE [tag |-> "Ok",
          value |-> [rpc_url |-> env_var(e, "RPC_URL").v,
                     public_key |-> env_var(e, "PUBLIC_KEY").v,
                     private_key |-> env_var(e, "PRIVATE_KEY").v,
                     conversation_id |-> env_var(e, "CONVERSATION_ID").v,
                     message_count |-> parse_u32(env_var(e, "MESSAGE_COUNT").v).v,
                     message_size |-> parse_u32(env_var(e, "MESSAGE_SIZE").v).v]]

notEnv == << ledger, head, consumerVars, producerVars, scramVars >>

\* std::env::set_var before the program reads its environment
SetVar ==
    \E i \in 1..Len(EnvNames) : \E value \in ValuesOf(EnvNames[i]) :
        /\ env_ret.tag = "None"
        /\ environ' = [environ EXCEPT ![EnvNames[i]] = value]
        /\ UNCHANGED << env_ret, notEnv >>

\* std::env::remove_var before the program reads its environment
RemoveVar ==
    \E i \in 1..Len(EnvNames) :
        /\ env_ret.tag = "None"
        /\ environ[EnvNames[i]] # Unset
        /\ environ' = [environ EXCEPT ![EnvNames[i]] = Unset]
        /\ UNCHANGED << env_ret, notEnv >>

\* main calls environment() once, at its start
EnvironmentCall ==
    /\ env_ret.tag = "None"
    /\ env_ret' = environment(environ)
    /\ UNCHANGED << environ, notEnv >>

NextEnv == SetVar \/ RemoveVar \/ EnvironmentCall

SpecEnv == Init /\ [][NextEnv]_vars

\* ------------------------------------------------------------------- scram
\* A String is a sequence of characters; each takes one byte or more in
\* UTF-8.  "e-acute" stands for U+00E9, two bytes.
Chars == {"1", "*", "e-acute"}
Utf8Len(c) == IF c = "e-acute" THEN 2 ELSE 1

\* String::len: the length in bytes
RECURSIVE len(_)
len(value) == IF value = <<>> THEN 0 ELSE Utf8Len(Head(value)) + len(Tail(value))

ScramCap == 10

\* the for loop of scram (lines 43-45): one '*' pushed per iteration
RECURSIVE ScramLoop(_, _, _)
ScramLoop(i, end, scrambled) ==
    IF i >= end THEN scrambled
    ELSE ScramLoop(i + 1, end, Append(scrambled, "*"))

\* scram without the cap of ten
scramNoCap(value) == ScramLoop(0, len(value), <<>>)

\* scram (lines 41-47): value.len().min(10) iterations
scram(value) ==
    ScramLoop(0, IF len(value) <= ScramCap THEN len(value) ELSE ScramCap, <<>>)

notScram == << ledger, head, consumerVars, producerVars, envVars >>

\* the caller builds the value it is going to print, one character at a time
ScramPush ==
    \E c \in Chars :
        /\ scram_ret.tag = "None"
        /\ len(scram_arg) + Utf8Len(c) <= MaxStrBytes
        /\ scram_arg' = Append(scram_arg, c)
        /\ UNCHANGED << scram_ret, notScram >>

\* printenv calls scram on the private key (line 35)
ScramCall ==
    /\ scram_ret.tag = "None"
    /\ scram_ret' = [tag |-> "Ok", v |-> scram(scram_arg)]
    /\ UNCHANGED << scram_arg, notScram >>

NextScram == ScramPush \/ ScramCall

SpecScram == Init /\ [][NextScram]_vars

\* ================================================================= claims
WellFormed(data) == abi_decode_payload_sent(data).ok
TextOf(data) == abi_decode_payload_sent(data).param[1]
PrevOf(data) == abi_decode_payload_sent(data).param[2]

\* the message texts of ledger events from..to, in append order
TrueMessages(from, to) == [i \in 1..(to - from + 1) |-> TextOf(ledger[from + i - 1].data)]
WellFormedRange(from, to) == \A i \in from..to : WellFormed(ledger[i].data)

IsPrefix(s, t) == Len(s) <= Len(t) /\ SubSeq(t, 1, Len(s)) = s

\* rewind returned Ok and no event was appended while it ran
RewindReturned == pc = "rw_ok" /\ ~mutated

\* C1: rewind(c, n) followed by follow_messages from the returned cursor, with
\* no event appended in between and a subscription delivering every event at a
\* position >= start_block: the rewound messages followed by the messages the
\* sink received are the conversation's messages in append order, none
\* missing and none twice.
C1_Handoff ==
    (/\ pc \in {"fl_loop", "fl_ok", "fl_err"}
     /\ result.tag = "Ok"
     /\ ~mutated
     /\ WellFormedRange(1, Len(ledger)))
    => LET r == result.value.message
           first == snapshot - Len(r) + 1
       IN  /\ first >= 1
           /\ IsPrefix(r \o sink, TrueMessages(first, Len(ledger)))

HeadAtCall == IF snapshot = 0 THEN 0 ELSE ledger[snapshot].block

C3_LastNMessages ==
    (/\ RewindReturned /\ arg_n >= 1 /\ snapshot >= arg_n
     /\ WellFormedRange(snapshot - arg_n + 1, snapshot))
    => result.value.message = TrueMessages(snapshot - arg_n + 1, snapshot)

\* C4: on a conversation of fewer than n events rewind(c, n) returns all its
\* messages, oldest first, and the cursor zero.
C4_ShortConversation ==
    (RewindReturned /\ snapshot < arg_n /\ WellFormedRange(1, snapshot))
    => /\ result.value.message = TrueMessages(1, snapshot)
       /\ result.value.last_change = 0

\* C5: rewind(c, 0) queries and decodes no event and returns an empty list,
\* whatever the head pointer is.
C5_ZeroBudget ==
    (pc \in {"rw_loop", "rw_ok", "rw_err", "rw_panic"} /\ arg_n = 0)
    => /\ queried = <<>>
       /\ decoded = <<>>
       /\ pc # "rw_panic"
       /\ (pc = "rw_ok" => result.value.message = <<>>)

\* C6: a get_logs answer without any event at a non-zero working pointer ends
\* rewind with an error.
C6_EmptyAnswerIsError ==
    (pc \in {"rw_loop", "rw_ok", "rw_err", "rw_panic"} /\ lastResp = "empty")
    => pc = "rw_err" /\ result.tag = "Err"

\* C7: a failed get_logs ends rewind with an error at once; the query is not
\* issued again.
C7_QueryFailureIsError ==
    (pc \in {"rw_loop", "rw_ok", "rw_err", "rw_panic"} /\ lastResp = "fail")
    => pc = "rw_err" /\ result.tag = "Err"

\* C8: in follow_messages the first delivered event that does not decode ends
\* the call with an error: the sink was invoked for exactly the events before
\* it, not for it, and for no event after it.
C8_FollowStopsAtMalformed ==
    \A i \in 1..Len(delivered) :
        ~WellFormed(delivered[i])
        => /\ i = Len(delivered)
           /\ pc = "fl_err"
           /\ sink = [j \in 1..(i - 1) |-> TextOf(delivered[j])]

C8_Witness ==
    /\ pc = "fl_err"
    /\ Len(sink) >= 1
    /\ Len(LogsFrom(start_block)) > Len(delivered)
    /\ WellFormed(LogsFrom(start_block)[Len(delivered) + 1].data)

\* C9: the sink invocations are, in order, the texts of the events the
\* subscription delivered: one invocation per well-formed event, a prefix of
\* the subscription's sequence, nothing reordered, repeated or left out.
C9_SinkIsDeliveredPrefix ==
    pc \in {"fl_loop", "fl_ok", "fl_err"}
    => /\ Len(sink) <= Len(LogsFrom(start_block))
       /\ \A i \in 1..Len(sink) :
             /\ WellFormed(LogsFrom(start_block)[i].data)
             /\ sink[i] = TextOf(LogsFrom(start_block)[i].data)
       /\ Len(sink) = Len(SelectSeq(delivered, WellFormed))
       /\ (pc # "fl_err" => Len(sink) = Len(delivered))

C9_Witness ==
    /\ pc = "fl_loop"
    /\ Len(sink) >= 2
    /\ sink[1] # sink[2]

\* C10: a payload that does not decode makes rewind return an error and no
\* MessageRewind; nothing is decoded after it and the messages accumulated
\* before it are not returned.
C10_RewindFailsAtomically ==
    \A i \in 1..Len(decoded) :
        ~WellFormed(decoded[i])
        => /\ i = Len(decoded)
           /\ pc = "rw_err"
           /\ result = [tag |-> "Err"]

C10_Witness ==
    /\ pc = "rw_err"
    /\ Len(decoded) >= 2
    /\ ~WellFormed(decoded[Len(decoded)])
    /\ rewind.message # <<>>
    /\ Len(LogsAt(queried[Len(queried)])) >= 1
RewindStates == {"rw_loop", "rw_ok", "rw_err", "rw_panic"}
Min(a, b) == IF a <= b THEN a ELSE b

\* the first k events of the ledger are recorded at k different positions
DistinctPositions(k) == \A i, j \in 1..k : i # j => ledger[i].block # ledger[j].block

\* C11: a failed subscribe_logs makes follow_messages return an error value
\* to its caller, and the sink is never invoked.
C11_SubscribeFailureIsError ==
    subResp = "fail" => pc = "fl_err" /\ sink = <<>>

\* C12: with the sentinel zero as head pointer rewind(c, n) returns, for every
\* n, an empty list and the cursor zero and issues no event query.
C12_EmptyConversation ==
    (pc \in RewindStates /\ lookup = "ok" /\ snapshot = 0)
    => /\ pc = "rw_ok"
       /\ result = [tag |-> "Ok", value |-> [message |-> <<>>, last_change |-> 0]]
       /\ queried = <<>>
       /\ decoded = <<>>

C12_Witness ==
    /\ pc = "rw_ok" /\ lookup = "ok" /\ snapshot = 0
    /\ arg_n = MaxN

\* C13: a failed last_message lookup makes rewind return an error, without
\* any event query and without any message.
C13_LookupFailureIsError ==
    lookup = "fail"
    => /\ pc = "rw_err"
       /\ result = [tag |-> "Err"]
       /\ queried = <<>>
       /\ decoded = <<>>
       /\ rewind.message = <<>>

C13_Witness ==
    /\ lookup = "fail"
    /\ pc = "rw_err"
    /\ head # 0
    /\ arg_n >= 1

\* C14: send_message returns Ok only for a transaction that was submitted and
\* reached the required confirmations; a failed submission and a transaction
\* that did not reach them (dropped without a receipt included) return an
\* error.
C14_SendOkOnlyIfConfirmed ==
    /\ (sendRet = "Ok" => lastTx = "confirmed")
    /\ (lastTx \in {"submit_err", "conf_err", "dropped"} => sendRet = "Err")

\* the numeric texts that are u32 numbers, with their values
U32Max == [hi |-> Limb - 1, lo |-> Limb - 1]
IsU32Text(text) ==
    text \in { <<"1", "0", "1">>, <<"+", "5">>,
               <<"4", "2", "9", "4", "9", "6", "7", "2", "9", "5">> }
U32Of(text) ==
    CASE text = <<"1", "0", "1">> -> ToU32(101)
      [] text = <<"+", "5">> -> ToU32(5)
      [] text = <<"4", "2", "9", "4", "9", "6", "7", "2", "9", "5">> -> U32Max

\* the value of a variable is a u32 number
IsU32Value(value) == value.state = "unicode" /\ IsU32Text(value.v)

\* the Environment whose six fields are the values that were set
EnvironmentAsSet ==
    [rpc_url |-> environ["RPC_URL"].v,
     public_key |-> environ["PUBLIC_KEY"].v,
     private_key |-> environ["PRIVATE_KEY"].v,
     conversation_id |-> environ["CONVERSATION_ID"].v,
     message_count |-> U32Of(environ["MESSAGE_COUNT"].v),
     message_size |-> U32Of(environ["MESSAGE_SIZE"].v)]

\* C15 as stated: environment() panics whenever one of the six variables is
\* unset or MESSAGE_COUNT or MESSAGE_SIZE is not a u32 number, and otherwise
\* returns an Environment whose six fields are the values that were set.
C15_PanicsOnlyIfUnsetOrNotNumber ==
    env_ret.tag # "None"
    => IF /\ \A i \in 1..Len(EnvNames) : environ[EnvNames[i]] # Unset
          /\ IsU32Value(environ["MESSAGE_COUNT"])
          /\ IsU32Value(environ["MESSAGE_SIZE"])
       THEN env_ret.tag = "Ok" /\ env_ret.value = EnvironmentAsSet
       ELSE env_ret.tag = "Panic"

\* C15 (amended): environment() panics whenever one of the six variables is
\* unset or not valid Unicode, or MESSAGE_COUNT or MESSAGE_SIZE is not a u32
\* number; otherwise it returns an Environment whose six fields are the
\* values that were set, never a partly filled or defaulted one.
C15_EnvironmentAllOrNothing ==
    env_ret.tag # "None"
    => IF /\ \A i \in 1..Len(EnvNames) : environ[EnvNames[i]].state = "unicode"
          /\ IsU32Value(environ["MESSAGE_COUNT"])
          /\ IsU32Value(environ["MESSAGE_SIZE"])
       THEN env_ret.tag = "Ok" /\ env_ret.value = EnvironmentAsSet
       ELSE env_ret.tag = "Panic"

C15_Witness ==
    /\ env_ret.tag = "Ok"
    /\ env_ret.value.message_count = U32Max
    /\ env_ret.value.message_size = ToU32(5)
    /\ env_ret.value.rpc_url = <<"k">>
    /\ env_ret.value.private_key = <<>>

Stars(k) == [i \in 1..k |-> "*"]

\* C16 as stated, the length of v counted in characters: scram(v) is made
\* only of '*', its length is min(length of v, 10), and no character of v
\* appears in it.
C16_StarsPerCharacter ==
    scram_ret.tag = "Ok"
    => /\ \A i \in 1..Len(scram_ret.v) : scram_ret.v[i] = "*"
       /\ Len(scram_ret.v)
            = (IF Len(scram_arg) > 10 THEN 10 ELSE Len(scram_arg))
       /\ \A i \in 1..Len(scram_ret.v), j \in 1..Len(scram_arg) :
            scram_ret.v[i] # scram_arg[j]

\* the bytes of a text: one per character, one more per two-byte character
BytesOf(text) ==
    Len(text) + Cardinality({ j \in 1..Len(text) : text[j] = "e-acute" })

\* C16 (amended): scram(v) is made only of '*' characters, its length is
\* min(length of v in bytes, 10), and it depends on v through that length
\* only: it is that many '*' whatever the characters of v are.
C16_StarsPerByte ==
    scram_ret.tag = "Ok"
    => scram_ret.v = Stars(IF BytesOf(scram_arg) > 10 THEN 10
                           ELSE BytesOf(scram_arg))

C16_Witness ==
    /\ scram_ret.tag = "Ok"
    /\ Len(scram_arg) = 11
    /\ \A j \in 1..11 : scram_arg[j] = "1"
    /\ Len(scram_ret.v) = 10

\* C17: for n >= 1 rewind stops as soon as the budget is used up, also in the
\* middle of a batch: the accumulator and the returned list never hold more
\* than n messages and no more than n events are decoded.
C17_BudgetBound ==
    arg_n >= 1
    => /\ Len(rewind.message) <= arg_n
       /\ Len(decoded) <= arg_n
       /\ (result.tag = "Ok" => Len(result.value.message) <= arg_n)

C17_Witness ==
    /\ pc = "rw_ok" /\ ~mutated /\ arg_n >= 1
    /\ Len(queried) = 1
    /\ Len(decoded) = arg_n
    /\ Len(LogsAt(queried[1])) > arg_n
    /\ Len(result.value.message) = arg_n

\* C18: after a batch is processed the working pointer is a position strictly
\* earlier than the one just queried, or the sentinel, so that no position is
\* queried twice and no event is returned twice, also when two events of the
\* conversation are recorded at the same position.
C18_PointerMovesBack ==
    (pc \in {"rw_loop", "rw_ok"} /\ arg_n >= 1 /\ ~mutated /\ lastResp = "logs")
    => /\ last_change < queried[Len(queried)]
       /\ Len(rewind.message) <= snapshot

\* C19: for n >= 1, on a ledger whose events are well formed and recorded one
\* per position, and while every query succeeds, rewind(c, n) issues at most
\* min(n, number of events) queries and has returned Ok once it issued that
\* many.
C19_TerminatesWithinBudget ==
    (/\ pc \in RewindStates /\ lookup = "ok" /\ arg_n >= 1 /\ ~mutated
     /\ DistinctPositions(snapshot)
     /\ WellFormedRange(1, snapshot)
     /\ Len(queried) = Len(decoded))
    => /\ pc \in {"rw_loop", "rw_ok"}
       /\ Len(queried) <= Min(arg_n, snapshot)
       /\ (Len(queried) = Min(arg_n, snapshot) => pc = "rw_ok")

C19_Witness ==
    /\ pc = "rw_ok" /\ lookup = "ok" /\ ~mutated
    /\ DistinctPositions(snapshot)
    /\ WellFormedRange(1, snapshot)
    /\ snapshot = 2
    /\ arg_n > snapshot
    /\ Len(queried) = 2
    /\ Len(decoded) = 2

\* C20: a start_block that does not fit in 64 bits neither aborts
\* follow_messages nor is narrowed to another position, and the consumer's
\* follow starts at exactly the cursor rewind returned.
C20_WidePointerDoesNotAbort ==
    /\ (start_hi # 0 => pc # "fl_panic")
    /\ (pc \in {"fl_loop", "fl_ok", "fl_err"} => start_hi = 0)
    /\ (pc \in {"fl_loop", "fl_ok", "fl_err"} /\ result.tag = "Ok"
        => start_block = result.value.last_change)
\* C21: follow_messages runs until the subscription ends.  While the
\* subscription is open and every event it yielded is well formed the call
\* has not returned; it has returned Ok only if the subscription ended and
\* every event the subscription carried before its end was passed to the
\* sink, in order.
C21_RunsUntilStreamEnds ==
    /\ (pc \in {"fl_ok", "fl_err"}
        => \/ stream.ended
           \/ \E i \in 1..Len(delivered) : ~WellFormed(delivered[i]))
    /\ (pc = "fl_ok"
        => /\ stream.ended
           /\ Len(delivered) = stream.at
           /\ \A i \in 1..stream.at :
                 /\ delivered[i] = LogsFrom(start_block)[i].data
                 /\ WellFormed(delivered[i])
           /\ sink = [i \in 1..stream.at |-> TextOf(LogsFrom(start_block)[i].data)])

C21_Witness ==
    /\ pc = "fl_ok"
    /\ stream.ended
    /\ stream.at = 2
    /\ Len(sink) = 2
    /\ Len(LogsFrom(start_block)) = 3

====
